---- MODULE Spec2Model ----
(***************************************************************************)
(* Model of backend/api.py (DataAngelo: AI Database Architect).            *)
(*                                                                         *)
(* Text is a sequence of characters.  The structural characters of the     *)
(* prompt template and of the extraction patterns (backtick, '#', space,   *)
(* newline) are single characters; a run of letters that no pattern can    *)
(* split ("mermaid", "sql", "Design Explanation", the fixed sentences of   *)
(* the template and of the messages) is one element of the sequence, and   *)
(* "x" stands for any letter that occurs in none of the patterns.          *)
(***************************************************************************)
EXTENDS Integers, Sequences, FiniteSets, TLC

\* op:       the operation handled last ("none" before the first request)
\* request:  its request body
\* reply:    what the inference backend answered to it
\* filled:   the interiors the backend put into the template, when its
\*           completion is an instance of the template (else <<>>)
\* posts:    the bodies posted to the backend while handling it
\* extracts: how many times extract_sections ran while handling it
\* outcome:  what the handler returned or raised
VARIABLES op, request, reply, filled, posts, extracts, outcome

vars == <<op, request, reply, filled, posts, extracts, outcome>>

(***************************************************************************)
(* Bounds of the model.                                                    *)
(***************************************************************************)
MaxFrags == 3
MaxLen == 2
MaxZFrags == 3
MaxModels == 2
MaxDescFrags == 2
MaxTypeFrags == 1

(***************************************************************************)
(* Characters and fixed strings.                                           *)
(***************************************************************************)
\* the backtick character
BT == "BACKTICK"
HASH == "#"
SP == " "
NL == "\n"
TAB == "\t"
X == "x"

Whitespace == {SP, NL, TAB}

FENCE == <<BT, BT, BT>>
MERMAID_TAG == FENCE \o <<"mermaid">>
SQL_TAG == FENCE \o <<"sql">>
HEADING == <<HASH, HASH, SP, "Design Explanation">>

MODEL_NAME == <<"codellama:7b">>
DEFAULT_DATABASE_TYPE == <<"MySQL">>

MERMAID_PLACEHOLDER == <<"Could not extract Mermaid diagram">>
SQL_PLACEHOLDER == <<"Could not extract SQL queries">>

(***************************************************************************)
(* Sequence helpers.                                                       *)
(***************************************************************************)
Min(S) == CHOOSE m \in S : \A n \in S : m <= n
Max(S) == CHOOSE m \in S : \A n \in S : m >= n

\* p occurs in s at index i (what matching a literal at a position does)
OccursAt(s, p, i) ==
    /\ i >= 1
    /\ i + Len(p) - 1 <= Len(s)
    /\ \A k \in 1..Len(p) : s[i + k - 1] = p[k]

\* least index >= from at which p occurs in s, 0 when there is none
Find(s, p, from) ==
    LET c == {i \in from..(Len(s) - Len(p) + 1) : OccursAt(s, p, i)}
    IN  IF c = {} THEN 0 ELSE Min(c)

Contains(s, p) == Find(s, p, 1) # 0

\* number of (possibly overlapping) occurrences of p in s
Count(s, p) == Cardinality({i \in 1..Len(s) : OccursAt(s, p, i)})

\* str.strip(): leading and trailing whitespace removed
Strip(s) ==
    LET nz == {i \in 1..Len(s) : s[i] \notin Whitespace}
    IN  IF nz = {} THEN <<>> ELSE SubSeq(s, Min(nz), Max(nz))

\* str.split(sep): left to right, non-overlapping
RECURSIVE SplitFrom(_, _, _)
SplitFrom(s, sep, from) ==
    LET i == Find(s, sep, from)
    IN  IF i = 0
        THEN <<SubSeq(s, from, Len(s))>>
        ELSE <<SubSeq(s, from, i - 1)>> \o SplitFrom(s, sep, i + Len(sep))

Split(s, sep) == SplitFrom(s, sep, 1)

RECURSIVE Concat(_)
Concat(ss) == IF ss = <<>> THEN <<>> ELSE Head(ss) \o Concat(Tail(ss))

\* dict.get(key, default)
DictGet(d, key, default) == IF key \in DOMAIN d THEN d[key] ELSE default

(***************************************************************************)
(* The regular expressions of extract_sections.                            *)
(***************************************************************************)
NoMatch == [matched |-> FALSE, group |-> <<>>]

\* SearchFenced with a greedy group: it runs to the last fence of the text
SearchFencedGreedy(s, tag) ==
    LET open == tag \o <<NL>>
        starts == {i \in 1..Len(s) :
                     /\ OccursAt(s, open, i)
                     /\ Find(s, FENCE, i + Len(open)) # 0}
    IN  IF starts = {}
        THEN NoMatch
        ELSE LET b == Min(starts) + Len(open)
                 e == Max({k \in b..Len(s) : OccursAt(s, FENCE, k)})
             IN  [matched |-> TRUE, group |-> SubSeq(s, b, e - 1)]

\* re.search(tag + newline + (.*?) + fence, s, re.DOTALL): the leftmost start of
\* open + newline after which a closing fence occurs; group 1 runs to the
\* first such fence (lazy).
SearchFenced(s, tag) ==
    LET open == tag \o <<NL>>
        starts == {i \in 1..Len(s) :
                     /\ OccursAt(s, open, i)
                     /\ Find(s, FENCE, i + Len(open)) # 0}
    IN  IF starts = {}
        THEN NoMatch
        ELSE LET b == Min(starts) + Len(open)
                 e == Find(s, FENCE, b)
             IN  [matched |-> TRUE, group |-> SubSeq(s, b, e - 1)]

\* re.search(r'## Design Explanation\n(.*?)(?=\n##|\Z)', s, re.DOTALL):
\* group 1 runs from after the heading line to the first position that is
\* followed by newline '#' '#' or is the end of the text.
SearchExplanation(s) ==
    LET open == HEADING \o <<NL>>
        i == Find(s, open, 1)
    IN  IF i = 0
        THEN NoMatch
        ELSE LET b == i + Len(open)
                 ends == {k \in b..(Len(s) + 1) :
                            \/ k = Len(s) + 1
                            \/ OccursAt(s, <<NL, HASH, HASH>>, k)}
             IN  [matched |-> TRUE, group |-> SubSeq(s, b, Min(ends) - 1)]

\* FallbackExplanation trusting the text after the last fence from 3 parts on
FallbackExplanationThree(response) ==
    LET parts == Split(response, FENCE)
    IN  IF Len(parts) >= 3 THEN Strip(parts[Len(parts)]) ELSE <<>>

\* the else branch of the explanation: text after the last fence when the
\* split on fences has at least 5 parts
FallbackExplanation(response) ==
    LET parts == Split(response, FENCE)
    IN  IF Len(parts) >= 5 THEN Strip(parts[Len(parts)]) ELSE <<>>

extract_sections(response) ==
    LET mermaid_match == SearchFenced(response, MERMAID_TAG)
        sql_match == SearchFenced(response, SQL_TAG)
        explanation_match == SearchExplanation(response)
    IN  [erd_mermaid |-> IF mermaid_match.matched
                         THEN Strip(mermaid_match.group) ELSE <<>>,
         sql_queries |-> IF sql_match.matched
                         THEN Strip(sql_match.group) ELSE <<>>,
         explanation |-> IF explanation_match.matched
                         THEN Strip(explanation_match.group)
                         ELSE FallbackExplanation(response)]

(***************************************************************************)
(* Exceptions and handler results.                                         *)
(***************************************************************************)
HTTPException(status_code, detail) ==
    [type |-> "HTTPException", status_code |-> status_code, detail |-> detail]

\* str(e) of an HTTPException: "<status_code>: <detail>"
ExceptionStr(e) == <<ToString(e.status_code), ": ">> \o e.detail

Returned(body) == [result |-> "returned", status_code |-> 200, body |-> body]
Raised(e) == [result |-> "raised", status_code |-> e.status_code, detail |-> e.detail]

DatabaseResponse(erd_mermaid, sql_queries, explanation) ==
    [erd_mermaid |-> erd_mermaid, sql_queries |-> sql_queries,
     explanation |-> explanation]

(***************************************************************************)
(* query_ollama: one POST to the backend.  r is the backend's answer: a    *)
(* requests exception (connection failure, non-success status, timeout)    *)
(* or the JSON object of a successful answer.                              *)
(***************************************************************************)
OLLAMA_TIMEOUT == 120

\* query_ollama posting a second time when the first POST failed
query_ollama_retry(prompt, model, r) ==
    LET body == [model |-> model, prompt |-> prompt, stream |-> FALSE,
                 timeout |-> OLLAMA_TIMEOUT]
    IN  IF r.kind = "ok"
        THEN [raised |-> FALSE, posts |-> <<body>>,
              value |-> DictGet(r.json, "response", <<>>)]
        ELSE [raised |-> TRUE, posts |-> <<body, body>>,
              exc |-> HTTPException(500,
                        <<"Error communicating with Ollama: ", r.kind>>)]

query_ollama(prompt, model, r) ==
    LET body == [model |-> model, prompt |-> prompt, stream |-> FALSE,
                 timeout |-> OLLAMA_TIMEOUT]
    IN  IF r.kind = "ok"
        THEN [raised |-> FALSE, posts |-> <<body>>,
              value |-> DictGet(r.json, "response", <<>>)]
        ELSE [raised |-> TRUE, posts |-> <<body>>,
              exc |-> HTTPException(500,
                        <<"Error communicating with Ollama: ", r.kind>>)]

(***************************************************************************)
(* create_database_design_prompt                                           *)
(***************************************************************************)
\* the prompt with the SQL block opened by a bare fence
create_database_design_prompt_untagged(description, db_type) ==
    <<"You are an expert database architect. Based on the following application description, design a complete database schema.",
      NL, NL, "Application Description: ">> \o description
    \o <<NL, "Database Type: ">> \o db_type
    \o <<NL, NL, "Please provide your response in exactly this format:", NL, NL,
         HASH, HASH, SP, "ERD (Mermaid)", NL>>
    \o MERMAID_TAG \o <<NL, "erDiagram", NL>> \o FENCE
    \o <<NL, NL, HASH, HASH, SP, "SQL Queries", NL>>
    \o FENCE \o <<NL, "-- Your CREATE TABLE statements here", NL>> \o FENCE
    \o <<NL, NL>> \o HEADING
    \o <<NL, "Focus on best practices for ">> \o db_type

create_database_design_prompt(description, db_type) ==
    <<"You are an expert database architect. Based on the following application description, design a complete database schema.",
      NL, NL, "Application Description: ">> \o description
    \o <<NL, "Database Type: ">> \o db_type
    \o <<NL, NL, "Please provide your response in exactly this format:", NL, NL,
         HASH, HASH, SP, "ERD (Mermaid)", NL>>
    \o MERMAID_TAG
    \o <<NL, "erDiagram", NL,
         "    [Your Entity Relationship Diagram here using Mermaid syntax]", NL>>
    \o FENCE
    \o <<NL, NL, HASH, HASH, SP, "SQL Queries", NL>>
    \o SQL_TAG
    \o <<NL, "-- Your CREATE TABLE statements here", NL,
         "-- Include primary keys, foreign keys, indexes, and constraints", NL,
         "-- Use MySQL-specific syntax and data types (INT AUTO_INCREMENT, VARCHAR, etc.)", NL,
         "-- Include ENGINE=InnoDB and CHARACTER SET specifications", NL>>
    \o FENCE
    \o <<NL, NL>> \o HEADING
    \o <<NL, "Provide a detailed explanation of:", NL,
         "1. Why you chose this schema design", NL,
         "2. Relationships between tables and their reasoning", NL,
         "3. Key design decisions (normalization level, indexing strategy, etc.)", NL,
         "4. Scalability considerations", NL,
         "5. Any assumptions made about the requirements", NL, NL,
         "Focus on best practices for ">> \o db_type
    \o <<" and ensure the design is normalized, efficient, and scalable.">>

(***************************************************************************)
(* The handlers, as functions of the request and of the backend's answer.  *)
(* Each gives the outcome, the bodies posted and the number of runs of     *)
(* extract_sections.                                                       *)
(***************************************************************************)
root ==
    [outcome |-> Returned([message |-> <<"Database Design AI Agent is running!">>,
                           status |-> <<"healthy">>]),
     posts |-> <<>>, extracts |-> 0]

\* get_available_models letting the failure of the query escape
get_available_models_raising(r) ==
    [outcome |->
        IF r.kind = "ok"
        THEN LET models == DictGet(r.json, "models", <<>>)
             IN  Returned([available_models |->
                             [i \in 1..Len(models) |-> models[i].name]])
        ELSE Raised(HTTPException(500, <<"Internal Server Error">>)),
     posts |-> <<>>, extracts |-> 0]

\* r answers GET /api/tags
get_available_models(r) ==
    [outcome |->
        IF r.kind = "ok"
        THEN LET models == DictGet(r.json, "models", <<>>)
             IN  Returned([available_models |->
                             [i \in 1..Len(models) |-> models[i].name]])
        ELSE Returned([error |->
                <<"Could not connect to Ollama. Make sure it's running.">>]),
     posts |-> <<>>, extracts |-> 0]

\* a test that also counts whitespace-only text as empty
is_blank(response) == Strip(response) = <<>>

\* a test that counts no text as empty
never_empty(response) == FALSE

\* "not response": the completion is the empty string
is_empty(response) == response = <<>>

\* the result construction of design_database, from a non-empty completion
design_result(response) ==
    LET sections == extract_sections(response)
        missing_sections == {k \in DOMAIN sections : Strip(sections[k]) = <<>>}
    IN  IF missing_sections # {}
        THEN DatabaseResponse(
                DictGet(sections, "erd_mermaid", MERMAID_PLACEHOLDER),
                DictGet(sections, "sql_queries", SQL_PLACEHOLDER),
                DictGet(sections, "explanation", response))
        ELSE DatabaseResponse(sections.erd_mermaid, sections.sql_queries,
                              sections.explanation)

\* what the except clause of design_database raises for a caught e
design_error(e) ==
    HTTPException(500, <<"Error generating database design: ">> \o ExceptionStr(e))

design_database(req, r) ==
    LET prompt == create_database_design_prompt(req.description, req.database_type)
        q == query_ollama(prompt, MODEL_NAME, r)
    IN  IF q.raised
        THEN [outcome |-> Raised(design_error(q.exc)),
              posts |-> q.posts, extracts |-> 0]
        ELSE IF is_empty(q.value)
        THEN [outcome |-> Raised(design_error(
                            HTTPException(500, <<"Empty response from LLM">>))),
              posts |-> q.posts, extracts |-> 0]
        ELSE [outcome |-> Returned(design_result(q.value)),
              posts |-> q.posts, extracts |-> 1]

validation_prompt(requirements, design) ==
    <<NL, "    Review this database design against the requirements and provide feedback:",
      NL, "    ", NL, "    Requirements: ">> \o requirements
    \o <<NL, "    ", NL, "    Current Design: ">> \o design
    \o <<NL, "    ", NL, "    Please analyze:", NL,
         "    1. Completeness - does it meet all requirements?", NL,
         "    2. Normalization - is it properly normalized?", NL,
         "    3. Performance - are there potential bottlenecks?", NL,
         "    4. Scalability - will it scale well?", NL,
         "    5. Security - are there security considerations?", NL,
         "    ", NL, "    Provide specific recommendations for improvement.", NL,
         "    ">>

validate_error(e) ==
    HTTPException(500, <<"Error validating design: ">> \o ExceptionStr(e))

validate_design(req, r) ==
    LET design == DictGet(req, "design", <<>>)
        requirements == DictGet(req, "requirements", <<>>)
        q == query_ollama(validation_prompt(requirements, design), MODEL_NAME, r)
    IN  IF q.raised
        THEN [outcome |-> Raised(validate_error(q.exc)),
              posts |-> q.posts, extracts |-> 0]
        ELSE [outcome |-> Returned([validation_feedback |-> q.value]),
              posts |-> q.posts, extracts |-> 0]

(***************************************************************************)
(* Inputs: bounded sets of texts, requests and backend answers.            *)
(***************************************************************************)
SeqsUpTo(S, n) == UNION {[1..k -> S] : k \in 0..n}

\* all concatenations of at most n of the fragments
Texts(fragments, n) == {Concat(fs) : fs \in SeqsUpTo(fragments, n)}

\* pieces a completion is made of: whole and unclosed fenced blocks, bare
\* fences, the explanation heading with and without its newline, headings
\* of the same and of a deeper level, text and whitespace
CompletionFragments ==
    { MERMAID_TAG \o <<NL, X, NL>> \o FENCE \o <<NL>>,
      SQL_TAG \o <<NL, X, X, NL>> \o FENCE \o <<NL>>,
      MERMAID_TAG \o <<NL>>,
      FENCE,
      HEADING \o <<NL>>,
      HEADING,
      <<NL, HASH, HASH, SP, X>>,
      <<NL, HASH, HASH, HASH, SP, X>>,
      <<X>>,
      <<NL>> }

Completions == Texts(CompletionFragments, MaxFrags)

\* a completion that follows the template of the prompt, with interiors
\* x (diagram block), y (SQL block) and text z after the explanation heading
Template(x, y, z) ==
    <<HASH, HASH, SP, "ERD (Mermaid)", NL>> \o MERMAID_TAG \o <<NL>> \o x
    \o FENCE \o <<NL, NL, HASH, HASH, SP, "SQL Queries", NL>>
    \o SQL_TAG \o <<NL>> \o y
    \o FENCE \o <<NL, NL>> \o HEADING \o <<NL>> \o z

DiagramInteriors == Texts({<<X>>, <<NL>>, <<BT>>}, MaxLen)
SqlInteriors == {<<>>, <<X, X>>, <<X, X, NL>>, <<BT>>, HEADING \o <<NL, X>>}
ExplanationTexts == Texts({<<X>>, <<NL>>, <<HASH, HASH>>, FENCE}, MaxZFrags)

\* answers to POST /api/generate
PostFailures == {[kind |-> k] : k \in {"ConnectionError", "HTTPError", "Timeout"}}
Completed(text) == [kind |-> "ok", json |-> [model |-> MODEL_NAME, response |-> text]]
NoResponseKey == [kind |-> "ok", json |-> [model |-> MODEL_NAME]]
PostReplies == PostFailures \cup {NoResponseKey} \cup {Completed(c) : c \in Completions}
ValidateReplies ==
    PostFailures \cup {NoResponseKey}
    \cup {Completed(c) : c \in Texts(CompletionFragments, 1)}

\* answers to GET /api/tags
ModelNames == {<<"codellama:7b">>, <<"llama3">>, <<"mistral">>}
TagsFailures == {[kind |-> k] : k \in {"ConnectionError", "HTTPError"}}
TagsReplies ==
    TagsFailures \cup {[kind |-> "ok", json |-> [x \in {} |-> <<>>]]}
    \cup {[kind |-> "ok",
           json |-> [models |-> [i \in DOMAIN ns |-> [name |-> ns[i]]]]] :
            ns \in SeqsUpTo(ModelNames, MaxModels)}

DesignRequests ==
    {[description |-> <<X>>, database_type |-> t] :
        t \in {DEFAULT_DATABASE_TYPE, <<"PostgreSQL">>}}

ValidateRequests ==
    {[design |-> <<X>>, requirements |-> <<X, X>>], [design |-> <<X>>],
     [x \in {} |-> <<>>]}

PromptTexts(n) == Texts({<<X>>, <<NL>>, MERMAID_TAG, SQL_TAG, HEADING}, n)

(***************************************************************************)
(* The state machine: every request is handled on its own, nothing is kept *)
(* from one request to the next.                                           *)
(***************************************************************************)
NoReply == [kind |-> "none"]

Init ==
    /\ op = "none"
    /\ request = <<>>
    /\ reply = NoReply
    /\ filled = <<>>
    /\ posts = <<>>
    /\ extracts = 0
    /\ outcome = [result |-> "none"]

Handled(name, req, r, f, h) ==
    /\ op' = name
    /\ request' = req
    /\ reply' = r
    /\ filled' = f
    /\ posts' = h.posts
    /\ extracts' = h.extracts
    /\ outcome' = h.outcome

Root ==
    /\ op = "none"
    /\ Handled("root", <<>>, NoReply, <<>>, root)

GetAvailableModels ==
    /\ op = "none"
    /\ \E r \in TagsReplies :
          Handled("models", <<>>, r, <<>>, get_available_models(r))

DesignDatabase ==
    /\ op = "none"
    /\ \E req \in DesignRequests, r \in PostReplies :
          Handled("design", req, r, <<>>, design_database(req, r))

ValidateDesign ==
    /\ op = "none"
    /\ \E req \in ValidateRequests, r \in ValidateReplies :
          Handled("validate", req, r, <<>>, validate_design(req, r))

\* the response is sent and everything the request created is dropped
Respond ==
    /\ op # "none"
    /\ op' = "none"
    /\ request' = <<>>
    /\ reply' = NoReply
    /\ filled' = <<>>
    /\ posts' = <<>>
    /\ extracts' = 0
    /\ outcome' = [result |-> "none"]

Next == Root \/ GetAvailableModels \/ DesignDatabase \/ ValidateDesign \/ Respond

Spec == Init /\ [][Next]_vars

\* design requests answered by completions that follow the template
DesignTemplate ==
    /\ op = "none"
    /\ \E x \in DiagramInteriors, y \in SqlInteriors, z \in ExplanationTexts :
          LET req == [description |-> <<X>>, database_type |-> DEFAULT_DATABASE_TYPE]
              r == Completed(Template(x, y, z))
          IN  Handled("design", req, r, <<x, y, z>>, design_database(req, r))

NextTemplate == DesignTemplate \/ Respond

SpecTemplate == Init /\ [][NextTemplate]_vars

\* the prompt builder applied to bounded descriptions and database types
CreatePrompt ==
    /\ op = "none"
    /\ \E d \in PromptTexts(MaxDescFrags), t \in PromptTexts(MaxTypeFrags) :
        Handled("prompt", [description |-> d, database_type |-> t], NoReply, <<>>,
                [outcome |-> Returned(create_database_design_prompt(d, t)),
                 posts |-> <<>>, extracts |-> 0])

NextPrompt == CreatePrompt \/ Respond

SpecPrompt == Init /\ [][NextPrompt]_vars

(***************************************************************************)
(* Properties.                                                             *)
(***************************************************************************)
\* the text the backend returned ("" when it failed or sent no "response")
Completion == IF reply.kind = "ok" THEN DictGet(reply.json, "response", <<>>) ELSE <<>>

DesignAnswered == op = "design" /\ reply.kind = "ok" /\ Completion # <<>>

BackendFailed == reply.kind \in {"ConnectionError", "HTTPError", "Timeout"}

\* an interior that the closing fence of its block ends: it holds no fence
\* and does not end with a backtick, and holds no explanation heading line
PlainInterior(s) ==
    /\ Find(s \o FENCE, FENCE, 1) = Len(s) + 1
    /\ ~Contains(s, HEADING \o <<NL>>)
    /\ Strip(s) # <<>>

\* explanation text that no line starting with '##' cuts
PlainExplanation(s) == ~Contains(s, <<NL, HASH, HASH>>) /\ Strip(s) # <<>>

\* C1 as stated: a completion that follows the template round-trips to
\* exactly its interiors X, Y and its explanation text Z.
C1_RoundTripExact ==
    (op = "design" /\ filled # <<>>) =>
        /\ outcome.result = "returned"
        /\ outcome.body = DatabaseResponse(filled[1], filled[2], filled[3])

\* C1 amended: when X and Y hold no fence delimiter, do not end with a
\* backtick and hold no explanation heading line, Z holds no line starting
\* with '##', and all three have text left after trimming, the design
\* result is exactly the trimmed X, the trimmed Y and the trimmed Z.
C1_RoundTripTrimmed ==
    (/\ op = "design"
     /\ filled # <<>>
     /\ PlainInterior(filled[1])
     /\ PlainInterior(filled[2])
     /\ PlainExplanation(filled[3])) =>
        /\ outcome.result = "returned"
        /\ outcome.body =
             DatabaseResponse(Strip(filled[1]), Strip(filled[2]), Strip(filled[3]))

\* C1 witness: a template completion with untrimmed interiors was answered
C1_Witness ==
    /\ op = "design"
    /\ filled = <<<<X, NL>>, <<X, X, NL>>, <<X, NL>>>>
    /\ outcome.result = "returned"
    /\ outcome.body = DatabaseResponse(<<X>>, <<X, X>>, <<X>>)

\* C2 as stated: with a diagram block and the explanation heading with text
\* but no SQL block, the result holds the extracted diagram and explanation
\* and the SQL placeholder; symmetrically for a missing diagram block.
C2_MissingBlockPlaceholder ==
    DesignAnswered =>
        LET sections == extract_sections(Completion)
            has_mermaid == SearchFenced(Completion, MERMAID_TAG).matched
            has_sql == SearchFenced(Completion, SQL_TAG).matched
            has_text == /\ SearchExplanation(Completion).matched
                        /\ sections.explanation # <<>>
        IN  /\ (has_mermaid /\ sections.erd_mermaid # <<>> /\ has_text /\ ~has_sql) =>
                /\ outcome.result = "returned"
                /\ outcome.body = DatabaseResponse(sections.erd_mermaid,
                                     SQL_PLACEHOLDER, sections.explanation)
            /\ (has_sql /\ sections.sql_queries # <<>> /\ has_text /\ ~has_mermaid) =>
                /\ outcome.result = "returned"
                /\ outcome.body = DatabaseResponse(MERMAID_PLACEHOLDER,
                                     sections.sql_queries, sections.explanation)

\* C3 as stated: a non-empty completion with no fence and no explanation
\* heading gives both placeholders and the whole completion as explanation.
C3_UnstructuredFallsBackToRaw ==
    (DesignAnswered /\ ~Contains(Completion, FENCE) /\ ~Contains(Completion, HEADING)) =>
        /\ outcome.result = "returned"
        /\ outcome.body =
             DatabaseResponse(MERMAID_PLACEHOLDER, SQL_PLACEHOLDER, Completion)

\* C4: a backend answer with zero-length text ends the design request in an
\* error naming the empty response, unlike every backend failure's error,
\* and extract_sections does not run.
C4_EmptyCompletionIsError ==
    (op = "design" /\ reply.kind = "ok" /\ Completion = <<>>) =>
        /\ outcome.result = "raised"
        /\ outcome.status_code = 500
        /\ extracts = 0
        /\ Contains(outcome.detail, <<"Empty response from LLM">>)
        /\ \A f \in PostFailures :
              outcome.detail # design_database(request, f).outcome.detail

\* C4 witness: the backend answered a design request with the empty string
C4_Witness ==
    /\ op = "design"
    /\ reply = Completed(<<>>)
    /\ outcome.result = "raised"
    /\ Len(posts) = 1

\* number of occurrences of a marker the inputs bring into the prompt
Embedded(marker) ==
    Count(request.description, marker) + 2 * Count(request.database_type, marker)

PromptMarkers == {MERMAID_TAG, SQL_TAG, HEADING}

PromptBuilt ==
    op = "prompt" /\ request.description # <<>> /\ request.database_type # <<>>

\* C5 as stated: the prompt holds description and dialect verbatim and each
\* of the two fence tags and the explanation heading exactly once.
C5_MarkersExactlyOnce ==
    PromptBuilt =>
        /\ Contains(outcome.body, request.description)
        /\ Contains(outcome.body, request.database_type)
        /\ \A m \in PromptMarkers : Count(outcome.body, m) = 1

\* C5 amended: the prompt holds description and dialect verbatim, and each
\* marker exactly once besides the occurrences inside the embedded
\* description (embedded once) and dialect (embedded twice); so exactly
\* once when neither input holds the marker.
C5_MarkersOncePlusEmbedded ==
    PromptBuilt =>
        /\ Contains(outcome.body, request.description)
        /\ Contains(outcome.body, request.database_type)
        /\ \A m \in PromptMarkers : Count(outcome.body, m) = 1 + Embedded(m)

\* C5 witness: a prompt built from a description that holds a fence tag
C5_Witness ==
    /\ PromptBuilt
    /\ request.description = <<X>> \o SQL_TAG
    /\ request.database_type = <<X>>
    /\ Count(outcome.body, SQL_TAG) = 2
    /\ Count(outcome.body, MERMAID_TAG) = 1

ResultKeys == {"erd_mermaid", "sql_queries", "explanation"}

\* C6: every non-empty completion, however malformed, gives a successful
\* result with the three fields present as text.
C6_MalformedNeverFails ==
    DesignAnswered =>
        /\ outcome.result = "returned"
        /\ outcome.status_code = 200
        /\ DOMAIN outcome.body = ResultKeys
        /\ \A k \in ResultKeys : Len(outcome.body[k]) >= 0

\* C6 witness: a whitespace-only completion was answered with a result
C6_Witness ==
    /\ op = "design"
    /\ reply = Completed(<<NL>>)
    /\ outcome.result = "returned"
    /\ outcome.body = DatabaseResponse(<<>>, <<>>, <<>>)

\* C7: a design or validate request posts to the backend at most once; when
\* that call fails the request ends in an error carrying the cause, after
\* exactly one call.
C7_AtMostOneBackendCall ==
    (op \in {"design", "validate"}) =>
        /\ Len(posts) <= 1
        /\ BackendFailed =>
              /\ Len(posts) = 1
              /\ outcome.result = "raised"
              /\ outcome.status_code = 500
              /\ Contains(outcome.detail,
                          <<"Error communicating with Ollama: ", reply.kind>>)

\* C7 witness: a validate request whose backend call timed out
C7_Witness ==
    /\ op = "validate"
    /\ reply.kind = "Timeout"
    /\ outcome.result = "raised"
    /\ Len(posts) = 1

\* C8: listing models returns normally: the error object without a model
\* list when the query failed, the names in the backend's order otherwise.
C8_ModelsUnavailableIsReturned ==
    (op = "models") =>
        /\ outcome.result = "returned"
        /\ reply.kind # "ok" =>
              /\ DOMAIN outcome.body = {"error"}
              /\ outcome.body.error # <<>>
        /\ (reply.kind = "ok" /\ "models" \in DOMAIN reply.json) =>
              /\ DOMAIN outcome.body = {"available_models"}
              /\ Len(outcome.body.available_models) = Len(reply.json.models)
              /\ \A i \in 1..Len(reply.json.models) :
                    outcome.body.available_models[i] = reply.json.models[i].name

\* C8 witness: the backend was unreachable when the models were listed
C8_Witness ==
    /\ op = "models"
    /\ reply.kind = "ConnectionError"
    /\ outcome.result = "returned"

\* the explanation C9 describes: from after the first heading line to the
\* next line starting with '## ', or to the end of the text, trimmed
HeadingLevelExplanation(s) ==
    LET open == HEADING \o <<NL>>
        b == Find(s, open, 1) + Len(open)
        ends == {k \in b..(Len(s) + 1) :
                   \/ k = Len(s) + 1
                   \/ OccursAt(s, <<NL, HASH, HASH, SP>>, k)}
    IN  Strip(SubSeq(s, b, Min(ends) - 1))

\* C9 as stated: with the heading line present, the explanation runs to the
\* next heading of the same level or to the end; a '###' line does not end it.
C9_ExplanationRunsToNextHeading ==
    (DesignAnswered /\ Contains(Completion, HEADING \o <<NL>>)) =>
        extract_sections(Completion).explanation = HeadingLevelExplanation(Completion)

====
